---- MODULE Spec2Model ----
(***************************************************************************)
(* Model of lib/sequelize.js: the query pipeline (connection checkout,     *)
(* statement execution, release), and the bulk sync/drop of the registered *)
(* models.  The connection manager, the transaction, the dialect's query   *)
(* object and the model manager are collaborators of lib/sequelize.js;     *)
(* they are modelled by their documented contract.                         *)
(***************************************************************************)
EXTENDS Integers, Sequences, FiniteSets, TLC

\* ------------------------------------------------------------------ bounds
MaxQueries == 2
MaxConns == 2
MaxTxs == 1
MaxEntities == 2
MaxEdges == 2

Queries == 1..MaxQueries
Conns == 1..MaxConns
Txs == 1..MaxTxs
Entities == 1..MaxEntities

NoTx == 0
NoConn == 0
NoQuery == 0
Null == 0

VARIABLES
  options,       \* this.options (the part sync() reads)
  pool,          \* connection manager: the connections free in the pool
  txState,       \* Transaction state
  txConn,        \* Transaction.connection
  nextq,         \* number of the next query() call
  qTx,           \* options.transaction of each query() call
  qpc,           \* position of each query() call
  qConn,         \* the connection handed to the then-callback of the call
  getCalls,      \* connectionManager.getConnection calls made by the call
  releaseCalls,  \* connectionManager.releaseConnection calls made by the call
  runOk,         \* outcome of query.run(sql) of the call
  outcome,       \* settlement of the promise returned by query()
  qError,        \* the reason that promise is rejected with
  jobs,          \* then-callbacks ready to run, in the order they were queued
  connQ,         \* statements dispatched to a connection, waiting for it
  executing,     \* the statement a connection is executing
  daos,          \* modelManager.daos, in registration order
  refs,          \* references declared by each registered model
  bcall,         \* the bulk call in progress: "sync" or "drop"
  bforce,        \* options.force of the sync() in progress
  bphase,        \* position of the bulk call
  todo,          \* Promise.reduce: the models not yet visited
  inflight,      \* model operations started and not settled
  completed,     \* model operations fulfilled
  blog,          \* model operations in the order they were started
  bresult,       \* settlement of the promise returned by sync()/drop()
  berror,        \* the rejection reason of that promise
  failure,       \* the model operation that failed, and its reason
  tpc,           \* position of each transaction() call
  tArity,        \* callback.length of the continuation given to it
  tPrepared,     \* settlement of transaction.prepareEnvironment()
  tErr,          \* the reason the .catch() of transaction() receives
  cbCalls,       \* the calls of the continuation, in order
  tPromise,      \* settlement of the promise returned by transaction()
  endedBy,       \* who committed or rolled back the Transaction
  authCount,     \* number of authenticate() calls made
  aCall,         \* the arguments authenticate() gave to query(), per query() call
  aPromise,      \* settlement of the promise returned by authenticate()
  ctorIn,        \* the arguments of new Sequelize(...)
  ctorOut,       \* what new Sequelize(...) produced: a facade or a thrown error
  qoIn,          \* the arguments of a query() call and the facade's options.query
  qoOut,         \* the SQL text and the options query() hands to the executor
  abstractSupports, \* Abstract.prototype.supports
  pgSupports,    \* PostgresDialect.prototype.supports
  factories,     \* modelManager.daos: the registered factories, each with its identity
  nextFactory,   \* the identity the next new Model(...) gets
  lastFactory,   \* per model name, the factory the latest define() returned
  heap,          \* the objects holding options: the facade's, the caller's, a call's own
  constructed    \* the facade's config and options as the constructor left them

queryVars == <<pool, txState, txConn, nextq, qTx, qpc, qConn, getCalls,
               releaseCalls, runOk, outcome, qError, jobs, connQ, executing>>
syncVars == <<daos, refs, bcall, bforce, bphase, todo, inflight, completed,
              blog, bresult, berror, failure>>
txVars == <<tpc, tArity, tPrepared, tErr, cbCalls, tPromise, endedBy>>
authVars == <<authCount, aCall, aPromise>>
ctorVars == <<ctorIn, ctorOut>>
qoVars == <<qoIn, qoOut>>
capVars == <<abstractSupports, pgSupports>>
regVars == <<factories, nextFactory, lastFactory>>
cfgVars == <<heap, constructed>>
vars ==
  <<options, queryVars, syncVars, txVars, authVars, ctorVars, qoVars, capVars, regVars,
    cfgVars>>

\* ----------------------------------------------------------------- helpers
SeqToSet(s) == {s[i] : i \in DOMAIN s}

Min(S) == CHOOSE x \in S : \A y \in S : x <= y

RECURSIVE Reverse(_)
Reverse(s) == IF s = <<>> THEN <<>> ELSE Append(Reverse(Tail(s)), Head(s))

RECURSIVE Compact(_)
Compact(s) ==
  IF s = <<>> THEN <<>>
  ELSE IF Head(s) = Null THEN Compact(Tail(s))
       ELSE <<Head(s)>> \o Compact(Tail(s))

RECURSIVE Without(_, _)
Without(s, x) ==
  IF s = <<>> THEN <<>>
  ELSE IF Head(s) = x THEN Without(Tail(s), x)
       ELSE <<Head(s)>> \o Without(Tail(s), x)

Perms(s) ==
  {p \in [DOMAIN s -> SeqToSet(s)] : \A x \in SeqToSet(s) : \E i \in DOMAIN s : p[i] = x}

\* ------------------------------------------------------------------- query
\* line 492: options.transaction ? options.transaction.connection : getConnection()
UsesPinned_Never(tx) == FALSE
UsesPinned(tx) == tx # NoTx

\* line 496: if (options.transaction) return;
ShouldRelease_Always(tx) == TRUE
ShouldRelease(tx) == tx = NoTx

\* line 495: .finally() is chained on the promise of query.run(sql)
RunSettled_Early(pc) == pc \in {"queued", "executing", "finished"}
RunSettled(pc) == pc = "finished"

InitQuery ==
  /\ pool = Conns
  /\ txState = [t \in Txs |-> "CREATED"]
  /\ txConn = [t \in Txs |-> NoConn]
  /\ nextq = 1
  /\ qTx = [q \in Queries |-> NoTx]
  /\ qpc = [q \in Queries |-> "unused"]
  /\ qConn = [q \in Queries |-> NoConn]
  /\ getCalls = [q \in Queries |-> 0]
  /\ releaseCalls = [q \in Queries |-> 0]
  /\ runOk = [q \in Queries |-> TRUE]
  /\ outcome = [q \in Queries |-> "pending"]
  /\ qError = [q \in Queries |-> "none"]
  /\ jobs = <<>>
  /\ connQ = [c \in Conns |-> <<>>]
  /\ executing = [c \in Conns |-> NoQuery]

\* transaction(): prepareEnvironment takes a connection out of the pool and
\* pins it; the Transaction is ACTIVE from then on.
PrepareEnvironment(t, c) ==
  /\ txState[t] = "CREATED"
  /\ c \in pool
  /\ pool' = pool \ {c}
  /\ txState' = [txState EXCEPT ![t] = "ACTIVE"]
  /\ txConn' = [txConn EXCEPT ![t] = c]
  /\ UNCHANGED <<nextq, qTx, qpc, qConn, getCalls, releaseCalls, runOk,
                 outcome, qError, jobs, connQ, executing>>

\* query(sql, callee, options): up to the .then() of line 493.
QueryCall(tx) ==
  /\ nextq <= MaxQueries
  /\ tx # NoTx => txState[tx] = "ACTIVE"
  /\ LET q == nextq IN
       /\ nextq' = nextq + 1
       /\ qTx' = [qTx EXCEPT ![q] = tx]
       /\ IF UsesPinned(tx)
            THEN /\ qConn' = [qConn EXCEPT ![q] = txConn[tx]]
                 /\ jobs' = Append(jobs, q)
                 /\ qpc' = [qpc EXCEPT ![q] = "then"]
                 /\ UNCHANGED getCalls
            ELSE /\ getCalls' = [getCalls EXCEPT ![q] = @ + 1]
                 /\ qpc' = [qpc EXCEPT ![q] = "getConnection"]
                 /\ UNCHANGED <<qConn, jobs>>
  /\ UNCHANGED <<pool, txState, txConn, releaseCalls, runOk, outcome, qError, connQ,
                 executing>>

\* The promise of getConnection() is fulfilled with a free connection.
GetConnectionOk(q, c) ==
  /\ qpc[q] = "getConnection"
  /\ c \in pool
  /\ pool' = pool \ {c}
  /\ qConn' = [qConn EXCEPT ![q] = c]
  /\ jobs' = Append(jobs, q)
  /\ qpc' = [qpc EXCEPT ![q] = "then"]
  /\ UNCHANGED <<txState, txConn, nextq, qTx, getCalls, releaseCalls, runOk,
                 outcome, qError, connQ, executing>>

\* The promise of getConnection() is rejected: the .then() callback is skipped.
GetConnectionFail_Release(q) ==
  /\ qpc[q] = "getConnection"
  /\ qpc' = [qpc EXCEPT ![q] = "done"]
  /\ outcome' = [outcome EXCEPT ![q] = "rejected"]
  /\ qError' = [qError EXCEPT ![q] = "acquireError"]
  /\ releaseCalls' = [releaseCalls EXCEPT ![q] = @ + 1]
  /\ UNCHANGED <<pool, txState, txConn, nextq, qTx, qConn, getCalls,
                 runOk, jobs, connQ, executing>>

GetConnectionFail(q) ==
  /\ qpc[q] = "getConnection"
  /\ qpc' = [qpc EXCEPT ![q] = "done"]
  /\ outcome' = [outcome EXCEPT ![q] = "rejected"]
  /\ qError' = [qError EXCEPT ![q] = "acquireError"]
  /\ UNCHANGED <<pool, txState, txConn, nextq, qTx, qConn, getCalls,
                 releaseCalls, runOk, jobs, connQ, executing>>

\* lines 493-495: the .then() callback.  new Query(...) and query.run(sql)
\* either return (the statement is handed to the connection) or throw (the
\* promise of query() is rejected; no .finally() was chained).
ThenCallback(started) ==
  /\ jobs # <<>>
  /\ LET q == Head(jobs) IN
       /\ jobs' = Tail(jobs)
       /\ IF started
            THEN /\ connQ' = [connQ EXCEPT ![qConn[q]] = Append(@, q)]
                 /\ qpc' = [qpc EXCEPT ![q] = "queued"]
                 /\ UNCHANGED <<outcome, qError>>
            ELSE /\ qpc' = [qpc EXCEPT ![q] = "threw"]
                 /\ outcome' = [outcome EXCEPT ![q] = "rejected"]
                 /\ qError' = [qError EXCEPT ![q] = "startError"]
                 /\ UNCHANGED connQ
  /\ UNCHANGED <<pool, txState, txConn, nextq, qTx, qConn, getCalls,
                 releaseCalls, runOk, executing>>

\* A connection is one database session: it takes the statements handed to
\* it one at a time, in the order they were handed to it.
ConnStart(c) ==
  /\ connQ[c] # <<>>
  /\ executing[c] = NoQuery
  /\ executing' = [executing EXCEPT ![c] = Head(connQ[c])]
  /\ connQ' = [connQ EXCEPT ![c] = Tail(@)]
  /\ qpc' = [qpc EXCEPT ![Head(connQ[c])] = "executing"]
  /\ UNCHANGED <<pool, txState, txConn, nextq, qTx, qConn, getCalls,
                 releaseCalls, runOk, outcome, qError, jobs>>

\* The statement ends: the promise of query.run(sql) is settled.
ConnComplete(c, ok) ==
  /\ executing[c] # NoQuery
  /\ executing' = [executing EXCEPT ![c] = NoQuery]
  /\ qpc' = [qpc EXCEPT ![executing[c]] = "finished"]
  /\ runOk' = [runOk EXCEPT ![executing[c]] = ok]
  /\ UNCHANGED <<pool, txState, txConn, nextq, qTx, qConn, getCalls,
                 releaseCalls, outcome, qError, jobs, connQ>>

\* line 497: one call of releaseConnection(connection).
ReleaseConnection_Twice(calls) == calls + 2
ReleaseConnection(calls) == calls + 1

\* lines 495-498: the .finally() callback.
Finally(q) ==
  /\ RunSettled(qpc[q])
  /\ IF ShouldRelease(qTx[q])
       THEN /\ pool' = pool \cup {qConn[q]}
            /\ releaseCalls' = [releaseCalls EXCEPT ![q] = ReleaseConnection(@)]
       ELSE UNCHANGED <<pool, releaseCalls>>
  /\ qpc' = [qpc EXCEPT ![q] = "finally"]
  /\ UNCHANGED <<txState, txConn, nextq, qTx, qConn, getCalls, runOk, outcome, qError,
                 jobs, connQ, executing>>

\* The promise returned by query() settles as query.run(sql) did.
Settle(q) ==
  /\ qpc[q] = "finally"
  /\ qpc' = [qpc EXCEPT ![q] = "done"]
  /\ outcome' = [outcome EXCEPT ![q] = IF runOk[q] THEN "resolved" ELSE "rejected"]
  /\ qError' = [qError EXCEPT ![q] = IF runOk[q] THEN "none" ELSE "statementError"]
  /\ UNCHANGED <<pool, txState, txConn, nextq, qTx, qConn, getCalls,
                 releaseCalls, runOk, jobs, connQ, executing>>

NextQuery ==
  \/ \E t \in Txs, c \in Conns : PrepareEnvironment(t, c)
  \/ \E tx \in Txs \cup {NoTx} : QueryCall(tx)
  \/ \E q \in Queries, c \in Conns : GetConnectionOk(q, c)
  \/ \E q \in Queries : GetConnectionFail(q)
  \/ \E started \in BOOLEAN : ThenCallback(started)
  \/ \E c \in Conns : ConnStart(c)
  \/ \E c \in Conns, ok \in BOOLEAN : ConnComplete(c, ok)
  \/ \E q \in Queries : Finally(q)
  \/ \E q \in Queries : Settle(q)

\* --------------------------------------------------------------- sync/drop
Undefined == "undefined"

\* Utils._.defaults: a property is taken from the first object that sets it.
Defaults(a, b, c) == IF a # Undefined THEN a ELSE IF b # Undefined THEN b ELSE c

\* line 566: if (options.force)
ForceRequested_Always(o) == TRUE
ForceRequested(o) == o = "true"

\* modelManager.forEachDAO sorts the models by their references.  The raw
\* sort lists a referring model before the models it refers to; names that
\* are referred to but not registered are part of the sort.
SortNodes(ds, rf) == SeqToSet(ds) \cup UNION {rf[e] \ {e} : e \in SeqToSet(ds)}

RECURSIVE ToposortSort(_, _)
ToposortSort(rem, rf) ==
  IF rem = {} THEN <<>>
  ELSE LET top == {n \in rem : \A m \in rem \ {n} : n \notin rf[m]}
           pick == Min(IF top = {} THEN rem ELSE top)
       IN <<pick>> \o ToposortSort(rem \ {pick}, rf)

\* forEachDAO(iterator, options): the iterator receives daos[name], which is
\* undefined for a name that is not registered.  options.reverse defaults to
\* true and yields the creation order.
DefaultReverse == TRUE

ForEachDAO(ds, rf, reverse) ==
  LET sorted == ToposortSort(SortNodes(ds, rf), rf)
      order == IF reverse THEN Reverse(sorted) ELSE sorted
  IN [i \in DOMAIN order |-> IF order[i] \in SeqToSet(ds) THEN order[i] ELSE Null]

\* lines 573-583: sync() collects the models forEachDAO yields.
SyncDaos_Forward(ds, rf) == Compact(ForEachDAO(ds, rf, FALSE))
SyncDaos(ds, rf) == Compact(ForEachDAO(ds, rf, DefaultReverse))

\* lines 599-605: drop() collects the models forEachDAO yields, reverse: false.
DropDaos_Registration(ds, rf) == ds
DropDaos(ds, rf) == Compact(ForEachDAO(ds, rf, FALSE))

\* lines 585, 607: Promise.reduce calls the iterator for the next model when
\* the promise of the previous one is fulfilled.
ReduceMayCall_Parallel(fl) == TRUE
ReduceMayCall(fl) == fl = {}

\* Promise.reduce: a rejected iteration ends the reduction.
AfterRejection_Continue(td) == td
AfterRejection(td) == <<>>

\* lines 586, 608: the promise of dao.sync/dao.drop is returned as it is.
Propagate_Wrapped(err) == [err EXCEPT !.model = Null]
Propagate(err) == err

NoError == [code |-> "none", model |-> Null]
NoFailure == [op |-> "none", dao |-> Null, err |-> NoError]

\* The reasons a model's sync/drop may reject with: the failure of the
\* statement, which may or may not name the model.
DaoErrors(e) == {[code |-> "DatabaseError", model |-> m] : m \in {e, Null}}

RefChoices(e) == SUBSET (Entities \ {e})

\* The references declared by the registered models.
Edges(rf) == {p \in Entities \X Entities : p[2] \in rf[p[1]]}

InitSync ==
  /\ daos = <<>>
  /\ refs = [e \in Entities |-> {}]
  /\ bcall = "none"
  /\ bforce = FALSE
  /\ bphase = "idle"
  /\ todo = <<>>
  /\ inflight = {}
  /\ completed = {}
  /\ blog = <<>>
  /\ bresult = "pending"
  /\ berror = NoError
  /\ failure = NoFailure

\* define(modelName, attributes): lines 381-388.  Called between bulk calls;
\* the record of a settled bulk call is dropped.
IsDefined(ds, name) == name \in SeqToSet(ds)

Define(name, r) ==
  /\ bphase \in {"idle", "done"}
  /\ daos' = IF IsDefined(daos, name)
               THEN Append(Without(daos, name), name)
               ELSE Append(daos, name)
  /\ refs' = [refs EXCEPT ![name] = r]
  /\ Cardinality(Edges(refs')) <= MaxEdges
  /\ bcall' = "none"
  /\ bforce' = FALSE
  /\ bphase' = "idle"
  /\ todo' = <<>>
  /\ inflight' = {}
  /\ completed' = {}
  /\ blog' = <<>>
  /\ bresult' = "pending"
  /\ berror' = NoError
  /\ failure' = NoFailure

\* sync(options): lines 559-572.
SyncCall(force) ==
  /\ bphase \in {"idle", "done"}
  /\ LET o == Defaults(force, options.sync.force, options.force)
         f == ForceRequested(o)
     IN /\ bforce' = (o = "true")
        /\ IF f
             THEN /\ todo' = DropDaos(daos, refs)
                  /\ bphase' = "drop"
             ELSE /\ todo' = <<>>
                  /\ bphase' = "when"
  /\ bcall' = "sync"
  /\ inflight' = {}
  /\ completed' = {}
  /\ blog' = <<>>
  /\ bresult' = "pending"
  /\ berror' = NoError
  /\ failure' = NoFailure
  /\ UNCHANGED <<daos, refs>>

\* drop(options): lines 598-607.
DropCall ==
  /\ bphase \in {"idle", "done"}
  /\ bcall' = "drop"
  /\ bforce' = FALSE
  /\ todo' = DropDaos(daos, refs)
  /\ bphase' = "drop"
  /\ inflight' = {}
  /\ completed' = {}
  /\ blog' = <<>>
  /\ bresult' = "pending"
  /\ berror' = NoError
  /\ failure' = NoFailure
  /\ UNCHANGED <<daos, refs>>

\* lines 572-585: the .then() callback of sync().
WhenThen ==
  /\ bphase = "when"
  /\ todo' = SyncDaos(daos, refs)
  /\ bphase' = "sync"
  /\ UNCHANGED <<daos, refs, bcall, bforce, inflight, completed, blog,
                 bresult, berror, failure>>

\* lines 585-587, 607-609: the iterator of Promise.reduce is called.
ReduceNext ==
  /\ bphase \in {"drop", "sync"}
  /\ todo # <<>>
  /\ ReduceMayCall(inflight)
  /\ LET x == [op |-> bphase, dao |-> Head(todo)] IN
       /\ inflight' = inflight \cup {x}
       /\ blog' = Append(blog, x)
  /\ todo' = Tail(todo)
  /\ UNCHANGED <<daos, refs, bcall, bforce, bphase, completed, bresult,
                 berror, failure>>

\* The promise of dao.sync(options) / dao.drop(options) is fulfilled.
DaoDone(x) ==
  /\ x \in inflight
  /\ inflight' = inflight \ {x}
  /\ completed' = completed \cup {x}
  /\ UNCHANGED <<daos, refs, bcall, bforce, bphase, todo, blog, bresult,
                 berror, failure>>

\* The promise of dao.sync(options) / dao.drop(options) is rejected.
DaoFail(x, err) ==
  /\ x \in inflight
  /\ bresult = "pending"
  /\ inflight' = inflight \ {x}
  /\ failure' = [op |-> x.op, dao |-> x.dao, err |-> err]
  /\ todo' = AfterRejection(todo)
  /\ bphase' = IF todo' = <<>> THEN "done" ELSE bphase
  /\ bresult' = "rejected"
  /\ berror' = Propagate(err)
  /\ UNCHANGED <<daos, refs, bcall, bforce, completed, blog>>

\* Promise.reduce is fulfilled: drop() resolves, or sync() goes on.
ReduceEnd ==
  /\ bphase \in {"drop", "sync"}
  /\ todo = <<>>
  /\ inflight = {}
  /\ IF bphase = "drop" /\ bcall = "sync"
       THEN /\ bphase' = "when"
            /\ UNCHANGED bresult
       ELSE /\ bphase' = "done"
            /\ bresult' = IF bresult = "pending" THEN "resolved" ELSE bresult
  /\ UNCHANGED <<daos, refs, bcall, bforce, todo, inflight, completed, blog,
                 berror, failure>>

NextSync ==
  \/ \E name \in Entities : \E r \in RefChoices(name) : Define(name, r)
  \/ \E force \in {Undefined, "true", "false"} : SyncCall(force)
  \/ DropCall
  \/ WhenThen
  \/ ReduceNext
  \/ \E x \in inflight : DaoDone(x)
  \/ \E x \in inflight : \E err \in DaoErrors(x.dao) : DaoFail(x, err)
  \/ ReduceEnd

\* ------------------------------------------------------------- transaction
NoCallback == -1

Arities == {NoCallback, 0, 1, 2, 3}

\* prepareEnvironment() fails when no connection is handed out or when the
\* begin statement fails.
SetupErrors == {"acquireError", "beginError"}

\* line 770: wantsError = callback && callback.length === 2
WantsError_Never(arity) == FALSE
WantsError_AnyCallback(arity) == arity # NoCallback
WantsError(arity) == arity = 2

\* line 773: the continuation is called in the .then() of prepareEnvironment()
SetupDone_Eager(pc) == pc \in {"preparing", "then"}
SetupDone(pc) == pc = "then"

\* lines 773-779: nothing in transaction() calls commit or rollback, also not
\* when the continuation throws.
FacadeEnds_AutoRollback(threw) == threw
FacadeEnds(threw) == FALSE

Pending == [state |-> "pending", value |-> "none"]

restOfQuery == <<nextq, qTx, qpc, qConn, getCalls, releaseCalls, runOk,
                 outcome, qError, jobs, connQ, executing>>

InitTx ==
  /\ tpc = [t \in Txs |-> "idle"]
  /\ tArity = [t \in Txs |-> NoCallback]
  /\ tPrepared = [t \in Txs |-> "pending"]
  /\ tErr = [t \in Txs |-> "none"]
  /\ cbCalls = [t \in Txs |-> <<>>]
  /\ tPromise = [t \in Txs |-> Pending]
  /\ endedBy = [t \in Txs |-> "none"]

\* transaction(_options, _callback): lines 767-773, up to the .then().
TransactionCall(t, arity) ==
  /\ tpc[t] = "idle"
  /\ tpc' = [tpc EXCEPT ![t] = "preparing"]
  /\ tArity' = [tArity EXCEPT ![t] = arity]
  /\ UNCHANGED <<pool, txState, txConn, restOfQuery, tPrepared, tErr, cbCalls,
                 tPromise, endedBy>>

\* prepareEnvironment() is fulfilled: the Transaction is ACTIVE.
PrepareOk(t, c) ==
  /\ tpc[t] = "preparing"
  /\ PrepareEnvironment(t, c)
  /\ tpc' = [tpc EXCEPT ![t] = "then"]
  /\ tPrepared' = [tPrepared EXCEPT ![t] = "ok"]
  /\ UNCHANGED <<tArity, tErr, cbCalls, tPromise, endedBy>>

\* prepareEnvironment() is rejected: no connection is pinned.
PrepareFail(t, err) ==
  /\ tpc[t] = "preparing"
  /\ tpc' = [tpc EXCEPT ![t] = "catch"]
  /\ tPrepared' = [tPrepared EXCEPT ![t] = "failed"]
  /\ tErr' = [tErr EXCEPT ![t] = err]
  /\ UNCHANGED <<pool, txState, txConn, restOfQuery, tArity, cbCalls,
                 tPromise, endedBy>>

\* lines 773-776: the .then() callback; the continuation returns or throws.
TxThen(t, threw) ==
  /\ SetupDone(tpc[t])
  /\ threw => tArity[t] # NoCallback
  /\ cbCalls' =
       [cbCalls EXCEPT ![t] =
          IF WantsError(tArity[t])
            THEN Append(@, [args |-> <<"null", "transaction">>, state |-> txState[t]])
            ELSE IF tArity[t] # NoCallback
                   THEN Append(@, [args |-> <<"transaction">>, state |-> txState[t]])
                   ELSE @]
  /\ IF threw
       THEN /\ tpc' = [tpc EXCEPT ![t] = "catch"]
            /\ tErr' = [tErr EXCEPT ![t] = "callbackError"]
            /\ UNCHANGED tPromise
       ELSE /\ tpc' = [tpc EXCEPT ![t] = "settled"]
            /\ tPromise' = [tPromise EXCEPT ![t] =
                              [state |-> "fulfilled", value |-> "transaction"]]
            /\ UNCHANGED tErr
  /\ IF FacadeEnds(threw)
       THEN /\ txState' = [txState EXCEPT ![t] = "ROLLED_BACK"]
            /\ endedBy' = [endedBy EXCEPT ![t] = "facade"]
       ELSE UNCHANGED <<txState, endedBy>>
  /\ UNCHANGED <<pool, txConn, restOfQuery, tArity, tPrepared>>

\* lines 776-779: the .catch() callback.
TxCatch(t, threw) ==
  /\ tpc[t] = "catch"
  /\ threw => WantsError(tArity[t])
  /\ tpc' = [tpc EXCEPT ![t] = "settled"]
  /\ IF WantsError(tArity[t])
       THEN /\ cbCalls' = [cbCalls EXCEPT ![t] =
                             Append(@, [args |-> <<tErr[t]>>, state |-> txState[t]])]
            /\ tPromise' = [tPromise EXCEPT ![t] =
                              IF threw
                                THEN [state |-> "rejected", value |-> "callbackError"]
                                ELSE [state |-> "fulfilled", value |-> "undefined"]]
       ELSE /\ tPromise' = [tPromise EXCEPT ![t] =
                              [state |-> "rejected", value |-> tErr[t]]]
            /\ UNCHANGED cbCalls
  /\ UNCHANGED <<pool, txState, txConn, restOfQuery, tArity, tPrepared, tErr,
                 endedBy>>

\* The caller commits or rolls back the Transaction it was handed (by the
\* continuation or by the promise): the pinned connection goes back to the pool.
EndTransaction(t, how) ==
  /\ tpc[t] = "settled" \/ cbCalls[t] # <<>>
  /\ txState[t] = "ACTIVE"
  /\ txState' = [txState EXCEPT ![t] = how]
  /\ pool' = pool \cup {txConn[t]}
  /\ endedBy' = [endedBy EXCEPT ![t] = "caller"]
  /\ UNCHANGED <<txConn, restOfQuery, tpc, tArity, tPrepared, tErr, cbCalls,
                 tPromise>>

NextTx ==
  \/ \E t \in Txs, arity \in Arities : TransactionCall(t, arity)
  \/ \E t \in Txs, c \in Conns : PrepareOk(t, c)
  \/ \E t \in Txs, err \in SetupErrors : PrepareFail(t, err)
  \/ \E t \in Txs, threw \in BOOLEAN : TxThen(t, threw)
  \/ \E t \in Txs, threw \in BOOLEAN : TxCatch(t, threw)
  \/ \E t \in Txs, how \in {"COMMITTED", "ROLLED_BACK"} : EndTransaction(t, how)

\* ------------------------------------------------------------ authenticate
NoCall == <<>>

\* line 621: this.query('SELECT 1+1 AS result', null, { raw: true, plain: true })
AuthQuery == <<"SELECT 1+1 AS result", "null", "raw", "plain">>

\* line 621: .return() fulfils with no value whatever query() was fulfilled with.
AuthReturn(result) == [state |-> "fulfilled", value |-> <<"undefined">>]

\* lines 621-623: .catch(function(err) { throw new Error(err); })
AuthCatch_Swallow(err) == [state |-> "fulfilled", value |-> <<"undefined">>]
AuthCatch(err) == [state |-> "rejected", value |-> <<"Error", err>>]

AuthPending == [state |-> "pending", value |-> <<>>]

InitAuth ==
  /\ authCount = 0
  /\ aCall = [q \in Queries |-> NoCall]
  /\ aPromise = [q \in Queries |-> AuthPending]

\* authenticate(): line 621, the call of query() without a Transaction.
Authenticate ==
  /\ QueryCall(NoTx)
  /\ authCount' = authCount + 1
  /\ aCall' = [aCall EXCEPT ![nextq] = AuthQuery]
  /\ UNCHANGED aPromise

\* lines 621-623: the promise of query() is settled; .return() or .catch() runs.
AuthSettle(q) ==
  /\ aCall[q] # NoCall
  /\ aPromise[q] = AuthPending
  /\ outcome[q] # "pending"
  /\ aPromise' = [aPromise EXCEPT ![q] =
                    IF outcome[q] = "resolved"
                      THEN AuthReturn("rows")
                      ELSE AuthCatch(qError[q])]
  /\ UNCHANGED <<queryVars, authCount, aCall>>

NextAuth ==
  \/ Authenticate
  \/ \E q \in Queries : AuthSettle(q)
  \/ /\ \/ \E q \in Queries, c \in Conns : GetConnectionOk(q, c)
        \/ \E q \in Queries : GetConnectionFail(q)
        \/ \E started \in BOOLEAN : ThenCallback(started)
        \/ \E c \in Conns : ConnStart(c)
        \/ \E c \in Conns, ok \in BOOLEAN : ConnComplete(c, ok)
        \/ \E q \in Queries : Finally(q)
        \/ \E q \in Queries : Settle(q)
     /\ UNCHANGED authVars

\* ------------------------------------------------------------- constructor
\* Strings are sequences of tokens; <<>> is the empty string.  undefined and
\* null are the two values below, and an object where a string is expected
\* is TheObject.
Absent == <<"(undefined)">>
JsNull == <<"(null)">>
TheObject == <<"(object)">>

Truthy(v) == v \notin {Absent, JsNull, <<>>}

IndexOfTok(str, tok) ==
  IF \E i \in DOMAIN str : str[i] = tok
    THEN Min({i \in DOMAIN str : str[i] = tok})
    ELSE 0

LastIndexOfTok(str, tok) ==
  IF \E i \in DOMAIN str : str[i] = tok
    THEN CHOOSE i \in DOMAIN str :
           str[i] = tok /\ \A j \in DOMAIN str : str[j] = tok => j <= i
    ELSE 0

From(str, i) == SubSeq(str, i, Len(str))

\* url.parse(uri): protocol up to the first ':', then '//', the authority up
\* to the first '/', the rest is the pathname; in the authority the userinfo
\* ends at the last '@' and the port follows the last ':' of the host part.
\* A part that is not there is null.
UrlParse(uri) ==
  LET p == IndexOfTok(uri, ":")
      afterProto == From(uri, p + 1)
      rest == IF afterProto # <<>> /\ Head(afterProto) = "//"
                THEN Tail(afterProto) ELSE afterProto
      ps == IndexOfTok(rest, "/")
      authority == IF ps = 0 THEN rest ELSE SubSeq(rest, 1, ps - 1)
      at == LastIndexOfTok(authority, "@")
      hostport == From(authority, at + 1)
      pc == LastIndexOfTok(hostport, ":")
  IN [protocol |-> SubSeq(uri, 1, p),
      auth |-> IF at = 0 THEN JsNull ELSE SubSeq(authority, 1, at - 1),
      hostname |-> IF pc = 0 THEN hostport ELSE SubSeq(hostport, 1, pc - 1),
      port |-> IF pc = 0 THEN JsNull ELSE From(hostport, pc + 1),
      pathname |-> IF ps = 0 THEN JsNull ELSE From(rest, ps)]

\* str.split(':')[k], k = 0 or 1; undefined when there is no such part.
SplitColon(str, k) ==
  LET c1 == IndexOfTok(str, ":")
      after == From(str, c1 + 1)
      c2 == IndexOfTok(after, ":")
  IN IF k = 0
       THEN (IF c1 = 0 THEN str ELSE SubSeq(str, 1, c1 - 1))
       ELSE IF c1 = 0 THEN Absent
            ELSE IF c2 = 0 THEN after ELSE SubSeq(after, 1, c2 - 1)

\* line 99: pathname.replace(/^\//, '')
StripLeadingSlash(str) == IF str # <<>> /\ Head(str) = "/" THEN Tail(str) ELSE str

\* line 102: protocol.replace(/:$/, '')
StripTrailingColon(str) ==
  IF str # <<>> /\ str[Len(str)] = ":" THEN SubSeq(str, 1, Len(str) - 1) ELSE str

\* line 93: the one-argument form, or two arguments of which the second is
\* an object, is the URI form.
IsUriForm(in) == in.argc = 1 \/ (in.argc = 2 /\ in.secondIsObject)

NoOptions == [dialect |-> Absent, host |-> Absent, port |-> Absent]

\* lines 115-131: Utils._.extend(defaults, options) for the properties read here.
ExtendDefaults(o) ==
  [dialect |-> IF o.dialect = Absent THEN <<"mysql">> ELSE o.dialect,
   host |-> IF o.host = Absent THEN <<"localhost">> ELSE o.host,
   port |-> o.port]

\* lines 133-135
NormalizeDialect_Keep(d) == d
NormalizeDialect(d) == IF d = <<"postgresql">> THEN <<"postgres">> ELSE d

\* line 145
ConfigPassword(pw) == IF pw \in {<<>>, JsNull, Absent} THEN JsNull ELSE pw

\* lib/dialects/<name>: the dialects require() finds (line 57).
KnownDialects == {<<"mysql">>, <<"postgres">>, <<"sqlite">>, <<"mariadb">>}

\* line 160: the reason require('./dialects/' + name) or new Dialect() throws.
LoadError(d) ==
  IF d \in KnownDialects
    THEN <<"Error: Cannot find module of the connector library">>
    ELSE <<"Error: Cannot find module './dialects/">> \o d \o <<"'">>

NotConstructed ==
  [kind |-> "none", options |-> NoOptions,
   config |-> [database |-> Absent, username |-> Absent, password |-> Absent,
               host |-> Absent, port |-> Absent],
   dialect |-> Absent, connectionManager |-> Absent, message |-> <<>>]

\* lines 159-164: what a dialect that cannot be loaded leads to.
DialectFailure_Ignored(base, d, cause) == [base EXCEPT !.kind = "facade"]
DialectFailure(base, d, cause) ==
  [NotConstructed EXCEPT
     !.kind = "error",
     !.message = <<"The dialect ">> \o d \o <<" is not supported. (">>
                   \o cause \o <<")">>]

\* lines 98-100: the database name the URI form takes.
UriDatabase(first, pathname) ==
  IF Truthy(pathname) THEN StripLeadingSlash(pathname) ELSE first

\* lines 105-107: the port the URI form takes.
UriPort(port, optPort) == IF Truthy(port) THEN port ELSE optPort

\* new Sequelize(database, username, password, options): lines 89-175.
Sequelize(in) ==
  LET uriForm == IsUriForm(in)
      given == IF uriForm
                 THEN (IF in.argc = 2 THEN in.options ELSE NoOptions)
                 ELSE (IF in.argc = 4 THEN in.options ELSE NoOptions)
      urlParts == UrlParse(in.first)
      database == IF uriForm THEN UriDatabase(in.first, urlParts.pathname)
                             ELSE in.first
      opts == IF uriForm
                THEN [dialect |-> StripTrailingColon(urlParts.protocol),
                      host |-> urlParts.hostname,
                      port |-> UriPort(urlParts.port, given.port)]
                ELSE given
      second == IF in.argc >= 2
                  THEN (IF in.secondIsObject THEN TheObject ELSE in.username)
                  ELSE Absent
      third == IF in.argc >= 3 THEN in.password ELSE Absent
      username == IF uriForm /\ Truthy(urlParts.auth)
                    THEN SplitColon(urlParts.auth, 0) ELSE second
      password == IF uriForm /\ Truthy(urlParts.auth)
                    THEN SplitColon(urlParts.auth, 1) ELSE third
      ext == ExtendDefaults(opts)
      o == [ext EXCEPT !.dialect = NormalizeDialect(ext.dialect)]
      base == [kind |-> "facade", options |-> o,
               config |-> [database |-> database, username |-> username,
                           password |-> ConfigPassword(password),
                           host |-> o.host, port |-> o.port],
               dialect |-> o.dialect,
               connectionManager |-> <<"connectionManager of ">> \o o.dialect,
               message |-> <<>>]
  IN IF o.dialect \in KnownDialects /\ in.loads
       THEN base
       ELSE DialectFailure(base, o.dialect, LoadError(o.dialect))

\* The URIs and arguments tried.
UriSchemes == {<<"mysql">>, <<"postgres">>, <<"postgresql">>, <<"oracle">>}
UriAuths == {<<>>, <<"user", "@">>, <<"user", ":", "pw", "@">>,
             <<"user", ":", "p", ":", "w", "@">>}
UriPorts == {<<>>, <<":", "3306">>}
UriPaths == {<<>>, <<"/">>, <<"/", "db">>}
OptionChoices ==
  {NoOptions, [dialect |-> <<"sqlite">>, host |-> <<"other">>, port |-> <<"1">>]}

MakeUri(scheme, auth, port, path) ==
  scheme \o <<":", "//">> \o auth \o <<"host">> \o port \o path

UriInputs ==
  {[argc |-> n, first |-> MakeUri(sc, au, po, pa), secondIsObject |-> (n = 2),
    username |-> Absent, password |-> Absent, options |-> op, loads |-> TRUE] :
     n \in {1, 2}, sc \in UriSchemes, au \in UriAuths, po \in UriPorts,
     pa \in UriPaths, op \in OptionChoices}

ArgInputs ==
  {[argc |-> n, first |-> <<"db">>, secondIsObject |-> FALSE,
    username |-> <<"user">>, password |-> pw,
    options |-> [NoOptions EXCEPT !.dialect = d], loads |-> l] :
     n \in {2, 3, 4}, pw \in {<<>>, JsNull, <<"pw">>},
     d \in {Absent} \cup UriSchemes, l \in BOOLEAN}

CtorInputs == {in \in UriInputs : in.argc = 2 \/ in.options = NoOptions} \cup ArgInputs

DefaultInput ==
  [argc |-> 2, first |-> <<"db">>, secondIsObject |-> FALSE,
   username |-> <<"user">>, password |-> Absent, options |-> NoOptions,
   loads |-> TRUE]

InitCtor == ctorIn = DefaultInput /\ ctorOut = Sequelize(DefaultInput)

Construct ==
  /\ ctorOut = NotConstructed
  /\ ctorOut' = Sequelize(ctorIn)
  /\ UNCHANGED ctorIn

\* ------------------------------------------------- query(): text and options
\* SQL text is a sequence of characters.
NotSet == "(not set)"

LowerCase ==
  [ch \in {"S", "E", "L", "C", "T", "I", "N", "R"} |->
     CASE ch = "S" -> "s" [] ch = "E" -> "e" [] ch = "L" -> "l"
       [] ch = "C" -> "c" [] ch = "T" -> "t" [] ch = "I" -> "i"
       [] ch = "N" -> "n" [] ch = "R" -> "r"]

\* String.prototype.toLowerCase
ToLowerCase(str) ==
  [i \in DOMAIN str |-> IF str[i] \in DOMAIN LowerCase THEN LowerCase[str[i]] ELSE str[i]]

\* String.prototype.indexOf: the first position (from 0) sub occurs at, or -1.
IndexOf(str, sub) ==
  LET at == {i \in 0..(Len(str) - Len(sub)) : SubSeq(str, i + 1, i + Len(sub)) = sub}
  IN IF at = {} THEN -1 ELSE Min(at)

Select == <<"s", "e", "l", "e", "c", "t">>

\* line 488
InferType(sql) == IF IndexOf(ToLowerCase(sql), Select) = 0 THEN "SELECT" ELSE "false"

\* The escaping of a replacement value: a number as it is written, a string
\* between quotes.
Escape(v) == IF v.kind = "number" THEN v.text ELSE <<"'">> \o v.text \o <<"'">>

\* Utils.format([sql].concat(replacements)): each '?' takes the next value.
RECURSIVE Format(_, _)
Format(sql, values) ==
  IF sql = <<>> THEN <<>>
  ELSE IF Head(sql) = "?" /\ values # <<>>
         THEN Escape(Head(values)) \o Format(Tail(sql), Tail(values))
         ELSE <<Head(sql)>> \o Format(Tail(sql), values)

WordChars ==
  {"s", "e", "l", "c", "t", "i", "n", "r", "d", "x",
   "S", "E", "L", "C", "T", "1", "5"}

\* The longest run of word characters str starts with.
RECURSIVE WordPrefix(_)
WordPrefix(str) ==
  IF str # <<>> /\ Head(str) \in WordChars
    THEN <<Head(str)>> \o WordPrefix(Tail(str))
    ELSE <<>>

Thrown == "(throw)"

\* A name-to-value mapping is a sequence of named values.
HasName(values, name) == \E i \in DOMAIN values : values[i].name = name
ValueOf(values, name) == values[CHOOSE i \in DOMAIN values : values[i].name = name]

\* Utils.formatNamedParameters(sql, values): each ':name' takes the value
\* of that name; a name without a value is an error.
RECURSIVE FormatNamedParameters(_, _)
FormatNamedParameters(sql, values) ==
  IF sql = <<>> THEN <<>>
  ELSE LET name == WordPrefix(Tail(sql))
       IN IF Head(sql) = ":" /\ name # <<>>
            THEN IF HasName(values, name)
                   THEN Escape(ValueOf(values, name))
                          \o FormatNamedParameters(From(sql, Len(name) + 2), values)
                   ELSE <<Thrown>>
            ELSE <<Head(sql)>> \o FormatNamedParameters(Tail(sql), values)

\* Utils._.extend: every own property of the source is copied, one whose
\* value is undefined included.
Extend(dest, src) ==
  [k \in DOMAIN dest |-> IF src[k] = NotSet THEN dest[k] ELSE src[k]]

\* Utils._.defaults: a property is filled in when its value is undefined.
DefaultsFill(o, d) ==
  [k \in DOMAIN o |-> IF o[k] \in {NotSet, Undefined} THEN d[k] ELSE o[k]]

EmptyOptions == [type |-> NotSet, raw |-> NotSet]

\* lines 470-483: the text and the options the argument count selects.
QuerySql_Template(in) == in.sql
QuerySql(in) ==
  IF in.argc = 4
    THEN IF in.replacements.isArray
           THEN Format(in.sql, in.replacements.values)
           ELSE FormatNamedParameters(in.sql, in.replacements.values)
    ELSE in.sql

QueryArgOptions_AlwaysRaw(in) ==
  IF in.argc >= 3 THEN in.options ELSE [EmptyOptions EXCEPT !.raw = "true"]
QueryArgOptions(in) ==
  IF in.argc >= 3 THEN in.options
  ELSE IF in.argc = 2 THEN EmptyOptions
  ELSE [EmptyOptions EXCEPT !.raw = "true"]

\* lines 485-489
QueryOptions(in) ==
  LET sql == QuerySql(in)
      extended == Extend(in.defaults, QueryArgOptions(in))
  IN IF Thrown \in SeqToSet(sql)
       THEN [sql |-> <<"(none)">>, options |-> EmptyOptions, error |-> "BindError"]
       ELSE [sql |-> sql,
             options |-> DefaultsFill(extended,
                                      [type |-> InferType(sql), raw |-> Undefined]),
             error |-> "none"]

Sqls ==
  {<<"s", "e", "l", "e", "c", "t", " ", "?">>,
   <<"S", "E", "L", "E", "C", "T", " ", "1">>,
   <<"S", "e", "L", "e", "c", "T">>,
   <<" ", "s", "e", "l", "e", "c", "t">>,
   <<"i", "n", "s", "e", "r", "t", " ", "s", "e", "l", "e", "c", "t">>,
   <<"s", "e", "l", "e", "c">>,
   <<"s", "e", "l", "e", "c", "t", " ", "?", " ", "?">>,
   <<"s", "e", "l", "e", "c", "t", " ", ":", "i", "d">>,
   <<"s", "e", "l", "e", "c", "t", " ", ":", "i", "d", " ", ":", "x">>,
   <<"?", "e", "l", "e", "c", "t">>,
   <<>>}

NoName == <<>>
Id == <<"i", "d">>
X == <<"x">>
Five(n) == [name |-> n, kind |-> "number", text |-> <<"5">>]
StringS(n) == [name |-> n, kind |-> "string", text |-> <<"s">>]

Replacements ==
  {[isArray |-> TRUE, values |-> <<Five(NoName)>>],
   [isArray |-> TRUE, values |-> <<Five(NoName), StringS(NoName)>>],
   [isArray |-> FALSE, values |-> <<Five(Id)>>],
   [isArray |-> FALSE, values |-> <<StringS(Id), Five(X)>>],
   [isArray |-> FALSE, values |-> <<Five(X)>>]}

QueryInputs ==
  {[argc |-> n, sql |-> q, options |-> [type |-> t, raw |-> NotSet],
    defaults |-> [type |-> d, raw |-> w], replacements |-> r] :
     n \in 1..4, q \in Sqls, t \in {NotSet, Undefined, "SELECT", "INSERT"},
     d \in {NotSet, "INSERT", "BULKDELETE"}, w \in {NotSet, "false"},
     r \in Replacements}

NotResolved == [sql |-> <<"(none)">>, options |-> EmptyOptions, error |-> "none"]

InitQueryOptions ==
  /\ qoIn = [argc |-> 1, sql |-> <<>>, options |-> EmptyOptions,
             defaults |-> EmptyOptions,
             replacements |-> [isArray |-> TRUE, values |-> <<>>]]
  /\ qoOut = NotResolved

ResolveQueryOptions ==
  /\ qoOut = NotResolved
  /\ qoOut' = QueryOptions(qoIn)
  /\ UNCHANGED qoIn

\* ------------------------------------------------- dialect capabilities
\* A capability set maps a feature key to its value; NotSet is a key the set
\* does not have.
Features ==
  {"RETURNING", "DEFAULT VALUES", "schemas", "lock", "forShare",
   "VALUES ()", "LIMIT ON UPDATE"}

\* lines 13-19 of dialects/postgres/index.js: the first argument of _.defaults.
PostgresOverrides ==
  [k \in Features |->
     CASE k = "RETURNING" -> "true"
       [] k = "DEFAULT VALUES" -> "true"
       [] k = "schemas" -> "true"
       [] k = "lock" -> "true"
       [] k = "forShare" -> "FOR SHARE"
       [] OTHER -> NotSet]

\* _.defaults(object, source): a key of the source is taken when the object
\* has no value for it.
SupportsDefaults_SourceWins(object, source) ==
  [k \in Features |-> IF source[k] # NotSet THEN source[k] ELSE object[k]]
SupportsDefaults(object, source) ==
  [k \in Features |-> IF object[k] \in {NotSet, Undefined} THEN source[k] ELSE object[k]]

\* The capability sets Abstract.prototype.supports may be.
AbstractChoices == [Features -> {NotSet, "false", "true"}]

NotLoaded == [k \in Features |-> "(not loaded)"]

InitDialect ==
  /\ abstractSupports = [k \in Features |-> NotSet]
  /\ pgSupports = SupportsDefaults(PostgresOverrides, abstractSupports)

\* require('./dialects/postgres'): the module's top level runs once.
LoadPostgres ==
  /\ pgSupports = NotLoaded
  /\ pgSupports' = SupportsDefaults(PostgresOverrides, abstractSupports)
  /\ UNCHANGED abstractSupports

\* ------------------------------------------------------ define(): registry
MaxDefines == 5
Attributes == {"a", "b", "c"}
NoFactory == 0

\* ModelManager.prototype.addDAO, getDAO, removeDAO.
AddDAO(fs, f) == Append(fs, f)

GetDAO(fs, name) ==
  LET at == {i \in DOMAIN fs : fs[i].name = name}
  IN IF at = {} THEN [name |-> name, id |-> NoFactory, attributes |-> "none"]
     ELSE fs[Min(at)]

RemoveDAO_Keep(fs, f) == fs
RECURSIVE RemoveDAO(_, _)
RemoveDAO(fs, f) ==
  IF fs = <<>> THEN <<>>
  ELSE IF Head(fs).name = f.name
         THEN RemoveDAO(Tail(fs), f)
         ELSE <<Head(fs)>> \o RemoveDAO(Tail(fs), f)

\* lines 414-417
IsDefinedFactory(fs, name) ==
  Cardinality({i \in DOMAIN fs : fs[i].name = name}) # 0

\* lines 400-406: model(modelName); NoFactory stands for the throw.
ModelOf(fs, name) ==
  IF ~IsDefinedFactory(fs, name) THEN NoFactory ELSE GetDAO(fs, name).id

InitRegistry ==
  /\ factories = <<>>
  /\ nextFactory = 1
  /\ lastFactory = [n \in Entities |-> NoFactory]

\* lines 381-390 of define(modelName, attributes, options).
DefineFactory(name, attributes) ==
  /\ nextFactory <= MaxDefines
  /\ LET cleared == IF IsDefinedFactory(factories, name)
                      THEN RemoveDAO(factories, GetDAO(factories, name))
                      ELSE factories
         factory == [name |-> name, id |-> nextFactory, attributes |-> attributes]
     IN /\ factories' = AddDAO(cleared, factory)
        /\ lastFactory' = [lastFactory EXCEPT ![name] = factory.id]
  /\ nextFactory' = nextFactory + 1

NextRegistry == \E name \in Entities, attributes \in Attributes : DefineFactory(name, attributes)

\* ------------------------------------------------ options objects and config
\* An object maps each key to a value; NotSet is a key it does not have.  The
\* value of classMethods is the name of another object.
Keys == {"database", "type", "raw", "force", "logging", "classMethods", "greet",
         "omitNull"}

Stored ==
  {"config", "options", "options.query", "options.sync", "options.define",
   "options.define.classMethods"}
Objects == Stored \cup {"arg", "arg.classMethods", "local", "local.classMethods"}

EmptyObject == [k \in Keys |-> NotSet]

\* Utils._.clone(object): a new object with the same properties.
CloneTarget_None(object) == object
CloneTarget(object) == "local"

\* The objects after new Sequelize(...): lines 115-157.
Constructed0(queryType, force, define, logging) ==
  [o \in Objects |->
     CASE o = "config" -> [EmptyObject EXCEPT !.database = "db"]
       [] o = "options" -> [EmptyObject EXCEPT !.logging = logging, !.omitNull = "false"]
       [] o = "options.query" -> [EmptyObject EXCEPT !.type = queryType]
       [] o = "options.sync" -> [EmptyObject EXCEPT !.force = force]
       [] o = "options.define" ->
            IF define = "classMethods"
              THEN [EmptyObject EXCEPT !.classMethods = "options.define.classMethods"]
              ELSE IF define = "plain"
                     THEN [EmptyObject EXCEPT !.omitNull = "true"]
                     ELSE EmptyObject
       [] o = "options.define.classMethods" ->
            IF define = "classMethods"
              THEN [EmptyObject EXCEPT !.greet = "stored"]
              ELSE EmptyObject
       [] OTHER -> EmptyObject]

InitConfig ==
  /\ heap = Constructed0(NotSet, NotSet, "none", "false")
  /\ constructed = [o \in Stored |-> heap[o]]

\* What a caller passes as options.
CallOptions ==
  {EmptyObject,
   [EmptyObject EXCEPT !.type = "SELECT", !.raw = "true"],
   [EmptyObject EXCEPT !.force = "false"]}

\* query(sql, callee, options): lines 485-489.
ConfigQuery(given) ==
  LET target == CloneTarget("options.query")
      merged == DefaultsFill(Extend(heap["options.query"], given),
                             [EmptyObject EXCEPT !.logging = heap["options"].logging,
                                                 !.type = "false"])
  IN /\ heap' = [heap EXCEPT !["arg"] = given, ![target] = merged]
     /\ UNCHANGED constructed

\* authenticate(): lines 620-624, a query with options of its own.
ConfigAuthenticate == ConfigQuery([EmptyObject EXCEPT !.raw = "true"])

\* sync(options): lines 562-563.
ConfigSync(passed, given) ==
  LET target == IF passed THEN "arg" ELSE "local"
      start == IF passed THEN given ELSE EmptyObject
      merged == DefaultsFill(DefaultsFill(start, heap["options.sync"]), heap["options"])
      logged == IF merged.logging \in {NotSet, Undefined}
                  THEN [merged EXCEPT !.logging = "false"] ELSE merged
  IN /\ heap' = [heap EXCEPT ![target] = logged]
     /\ UNCHANGED constructed

\* drop(options), transaction(options, callback): lines 598-610, 767-771; the
\* options object is handed on as it is.
ConfigDrop(given) ==
  /\ heap' = [heap EXCEPT !["arg"] = given]
  /\ UNCHANGED constructed

ConfigTransaction(given) ==
  /\ heap' = [heap EXCEPT !["arg"] = given]
  /\ UNCHANGED constructed

\* define(modelName, attributes, options): lines 364-379.
ConfigDefine(passed, given, ownMethods) ==
  LET arg == IF passed
               THEN [given EXCEPT !.classMethods =
                                   IF ownMethods THEN "arg.classMethods" ELSE NotSet]
               ELSE EmptyObject
      argMethods == IF passed /\ ownMethods
                      THEN [EmptyObject EXCEPT !.greet = "own"] ELSE EmptyObject
      hasDefine == heap["options.define"] # EmptyObject
      target == IF hasDefine \/ ~passed THEN "local" ELSE "arg"
      extended == IF hasDefine
                    THEN Extend(Extend(EmptyObject, heap["options.define"]), arg)
                    ELSE arg
      fills == hasDefine /\ heap["options.define"].classMethods # NotSet
      methods == IF extended.classMethods = NotSet
                   THEN "local.classMethods" ELSE extended.classMethods
      withMethods == IF fills THEN [extended EXCEPT !.classMethods = methods]
                              ELSE extended
      h1 == [heap EXCEPT !["arg"] = arg, !["arg.classMethods"] = argMethods]
      h2 == IF fills
              THEN [h1 EXCEPT ![methods] =
                      DefaultsFill(h1[methods], h1[heap["options.define"].classMethods])]
              ELSE h1
  IN /\ heap' = [h2 EXCEPT ![target] =
                   [withMethods EXCEPT !.omitNull = heap["options"].omitNull]]
     /\ UNCHANGED constructed

\* log(): lines 782-793.
ConfigLog ==
  /\ heap["options"].logging \notin {"false", NotSet}
  /\ heap' = IF heap["options"].logging = "true"
               THEN [heap EXCEPT !["options"].logging = "console.log"]
               ELSE heap
  /\ UNCHANGED constructed

NextConfig ==
  \/ \E given \in CallOptions : ConfigQuery(given)
  \/ ConfigAuthenticate
  \/ \E passed \in BOOLEAN, given \in CallOptions : ConfigSync(passed, given)
  \/ \E given \in CallOptions : ConfigDrop(given)
  \/ \E given \in CallOptions : ConfigTransaction(given)
  \/ \E passed \in BOOLEAN, given \in CallOptions, ownMethods \in BOOLEAN :
       ConfigDefine(passed, given, ownMethods)
  \/ ConfigLog

\* ---------------------------------------------------------- specifications
\* The constructor: this.options.sync is {} unless the caller sets it.
InitOptions ==
  options \in {[sync |-> [force |-> f], force |-> Undefined] : f \in {Undefined, "true"}}

InitRest == InitOptions /\ InitQuery /\ InitSync /\ InitTx /\ InitAuth /\ InitRegistry /\ InitConfig

Init == InitRest /\ InitCtor /\ InitQueryOptions /\ InitDialect

others == <<options, queryVars, syncVars, txVars, authVars>>

QuerySpec ==
  Init /\ options.sync.force = Undefined
       /\ [][NextQuery /\ UNCHANGED <<options, syncVars, txVars, authVars, ctorVars, qoVars, capVars, regVars, cfgVars>>]_vars

SyncSpec ==
  Init /\ [][NextSync /\ UNCHANGED <<options, queryVars, txVars, authVars, ctorVars, qoVars, capVars, regVars, cfgVars>>]_vars

TxSpec ==
  Init /\ options.sync.force = Undefined
       /\ [][NextTx /\ UNCHANGED <<options, syncVars, authVars, ctorVars, qoVars, capVars, regVars, cfgVars>>]_vars

AuthSpec ==
  Init /\ options.sync.force = Undefined
       /\ [][NextAuth /\ UNCHANGED <<options, syncVars, txVars, ctorVars, qoVars, capVars, regVars, cfgVars>>]_vars

InitCtorSpec ==
  /\ InitRest /\ options.sync.force = Undefined /\ InitQueryOptions /\ InitDialect
  /\ ctorIn \in CtorInputs /\ ctorOut = NotConstructed

CtorSpec ==
  InitCtorSpec /\ [][Construct /\ UNCHANGED <<others, qoVars, capVars, regVars, cfgVars>>]_vars

InitQueryOptionsSpec ==
  /\ InitRest /\ options.sync.force = Undefined /\ InitCtor /\ InitDialect
  /\ qoIn \in QueryInputs /\ qoOut = NotResolved

QueryOptionsSpec ==
  InitQueryOptionsSpec /\ [][ResolveQueryOptions /\ UNCHANGED <<others, ctorVars, capVars, regVars, cfgVars>>]_vars

InitDialectSpec ==
  /\ InitRest /\ options.sync.force = Undefined /\ InitCtor /\ InitQueryOptions
  /\ abstractSupports \in AbstractChoices /\ pgSupports = NotLoaded

DialectSpec ==
  InitDialectSpec /\ [][LoadPostgres /\ UNCHANGED <<others, ctorVars, qoVars, regVars, cfgVars>>]_vars

InitRegistrySpec ==
  InitRest /\ options.sync.force = Undefined /\ InitCtor /\ InitQueryOptions /\ InitDialect

RegistrySpec ==
  InitRegistrySpec
    /\ [][NextRegistry /\ UNCHANGED <<options, queryVars, syncVars, txVars, authVars,
                                       ctorVars, qoVars, capVars, cfgVars>>]_vars

InitConfigSpec ==
  /\ InitOptions /\ InitQuery /\ InitSync /\ InitTx /\ InitAuth /\ InitRegistry
  /\ options.sync.force = Undefined /\ InitCtor /\ InitQueryOptions /\ InitDialect
  /\ \E q \in {NotSet, "INSERT"}, f \in {NotSet, "true"},
        d \in {"none", "plain", "classMethods"}, l \in {"false", "console.log"} :
       heap = Constructed0(q, f, d, l)
  /\ constructed = [o \in Stored |-> heap[o]]

ConfigSpec ==
  InitConfigSpec
    /\ [][NextConfig /\ UNCHANGED <<options, queryVars, syncVars, txVars, authVars,
                                     ctorVars, qoVars, capVars, regVars>>]_vars

Next ==
  \/ NextQuery /\ UNCHANGED <<options, syncVars, txVars, authVars, ctorVars, qoVars, capVars, regVars, cfgVars>>
  \/ NextSync /\ UNCHANGED <<options, queryVars, txVars, authVars, ctorVars, qoVars, capVars, regVars, cfgVars>>
  \/ NextTx /\ UNCHANGED <<options, syncVars, authVars, ctorVars, qoVars, capVars, regVars, cfgVars>>
  \/ NextAuth /\ UNCHANGED <<options, syncVars, txVars, ctorVars, qoVars, capVars, regVars, cfgVars>>

Spec == Init /\ [][Next]_vars

\* ------------------------------------------------------------------ claims
Settled(q) == outcome[q] # "pending"

CheckedOut(q) == getCalls[q] = 1 /\ qConn[q] # NoConn

\* The logical operation a query() call belongs to: its Transaction, or the
\* call itself.
Owner(q) == IF qTx[q] = NoTx THEN <<"query", q>> ELSE <<"transaction", qTx[q]>>

\* The calls whose statement has been handed to connection c and has not ended.
InFlightOn(c) == SeqToSet(connQ[c]) \cup ({executing[c]} \ {NoQuery})

\* C1: every query() call without a Transaction that checked out a connection
\* has released it by the time its promise is settled, on every path
\* (statement succeeded, statement failed, executor could not be started).
C1_ReleasedOnEveryPath ==
  \A q \in Queries :
    (qTx[q] = NoTx /\ CheckedOut(q) /\ Settled(q)) => releaseCalls[q] = 1

\* C2: a query() call given a Transaction runs on the Transaction's pinned
\* connection and calls neither getConnection nor releaseConnection, whether
\* the statement succeeds or fails.
C2_TransactionLeavesPoolAlone ==
  \A q \in Queries :
    qTx[q] # NoTx =>
      /\ getCalls[q] = 0
      /\ releaseCalls[q] = 0
      /\ qpc[q] # "unused" => qConn[q] = txConn[qTx[q]]
      /\ txConn[qTx[q]] \notin pool

C2_Witness ==
  /\ \E q \in Queries : qTx[q] # NoTx /\ qpc[q] = "done" /\ outcome[q] = "resolved"
  /\ \E q \in Queries : qTx[q] # NoTx /\ qpc[q] = "done" /\ outcome[q] = "rejected"
                        /\ ~runOk[q]

\* C3: of two query() calls on the same Transaction, the statement of the
\* later call does not start executing until the statement of the earlier
\* call has ended (calls are numbered in submission order).
C3_SameTransactionInOrder ==
  \A q1, q2 \in Queries :
    (q1 < q2 /\ qTx[q1] # NoTx /\ qTx[q1] = qTx[q2]
       /\ qpc[q2] \in {"executing", "finished", "finally", "done"})
    => qpc[q1] \in {"threw", "finished", "finally", "done"}

C3_Witness ==
  \E q1, q2 \in Queries :
    /\ q1 < q2 /\ qTx[q1] # NoTx /\ qTx[q1] = qTx[q2]
    /\ qpc[q1] = "executing" /\ qpc[q2] = "queued"

\* C4: at no time does a connection hold statements in flight for two
\* different logical operations.
C4_OneOperationPerConnection ==
  \A c \in Conns : Cardinality({Owner(q) : q \in InFlightOn(c)}) <= 1

C4_Witness ==
  \E c1, c2 \in Conns :
    /\ c1 # c2
    /\ executing[c1] # NoQuery /\ executing[c2] # NoQuery
    /\ qTx[executing[c1]] # NoTx /\ qTx[executing[c2]] = NoTx

Registered == SeqToSet(daos)

Started(op) == {blog[i].dao : i \in {j \in DOMAIN blog : blog[j].op = op}}

\* The models of the started operations of one kind, in the order started.
RECURSIVE StartOrder(_, _)
StartOrder(log, op) ==
  IF log = <<>> THEN <<>>
  ELSE IF Head(log).op = op THEN <<Head(log).dao>> \o StartOrder(Tail(log), op)
       ELSE StartOrder(Tail(log), op)

IsPrefix(s, t) == Len(s) <= Len(t) /\ \A i \in DOMAIN s : s[i] = t[i]

\* No set of registered models in which every model refers to another one.
Acyclic ==
  \A S \in SUBSET Registered :
    S # {} => \E n \in S : (refs[n] \ {n}) \cap S = {}

\* C5: sync() and drop() take the models one at a time: at most one model
\* operation of the bulk call is in flight, and an operation is started only
\* after every operation started before it has been fulfilled.
C5_OneEntityAtATime ==
  /\ Cardinality(inflight) <= 1
  /\ \A i \in DOMAIN blog : i < Len(blog) => blog[i] \in completed

C5_Witness ==
  /\ Len(blog) >= 2
  /\ inflight = {blog[Len(blog)]}
  /\ blog[Len(blog)].op = blog[Len(blog) - 1].op

\* C6: when the references among the registered models are acyclic, sync()
\* starts the sync of a model only after the sync of every registered model
\* it refers to, whatever the registration order.
C6_SyncReferencedFirst ==
  Acyclic =>
    \A i \in DOMAIN blog :
      blog[i].op = "sync" =>
        \A r \in (refs[blog[i].dao] \ {blog[i].dao}) \cap Registered :
          \E j \in DOMAIN blog : j < i /\ blog[j] = [op |-> "sync", dao |-> r]

\* Models registered referrer first, synced completely, referenced first.
C6_Witness ==
  /\ bcall = "sync" /\ bresult = "resolved" /\ Acyclic
  /\ Len(daos) >= 2
  /\ \A i \in DOMAIN daos : i > 1 => daos[i] \in refs[daos[i - 1]]
  /\ StartOrder(blog, "sync") = Reverse(daos)

\* C7: when a model's sync or drop fails, no later model is synced or
\* dropped and the promise of the bulk call is rejected with that failure.
C7_ShortCircuit ==
  failure # NoFailure =>
    /\ blog # <<>>
    /\ blog[Len(blog)] = [op |-> failure.op, dao |-> failure.dao]
    /\ inflight = {}
    /\ bresult = "rejected"
    /\ berror.code = failure.err.code

C7_Witness ==
  /\ failure # NoFailure
  /\ bphase = "done"
  /\ Len(blog) < Len(daos)
  /\ Len(blog) >= 1

\* C8 (as stated): the failure sync()/drop() rejects with carries the
\* identity of the model whose sync/drop failed.
C8_ErrorNamesEntity ==
  bresult = "rejected" => berror.model = failure.dao

\* C8 (amended): the failure sync()/drop() rejects with is the failure of the
\* model's own sync/drop, passed on unchanged: it names the model exactly
\* when the model's own failure does.
C8_ErrorPassedUnchanged ==
  bresult = "rejected" => (failure # NoFailure /\ berror = failure.err)

C8_Witness ==
  /\ bresult = "rejected"
  /\ failure.op = "sync"
  /\ berror.model = failure.dao

\* C9: sync() with force starts no model's sync until the drop of every
\* registered model has been fulfilled; sync() without force starts no drop.
C9_ForceDropsFirst ==
  bcall = "sync" =>
    /\ bforce =>
         (Started("sync") # {} =>
            \A e \in Registered : [op |-> "drop", dao |-> e] \in completed)
    /\ (bforce /\ failure.op = "drop") => Started("sync") = {}
    /\ ~bforce => Started("drop") = {}

C9_Witness ==
  /\ bcall = "sync" /\ bforce
  /\ Len(daos) >= 2
  /\ Started("sync") = Registered
  /\ bresult = "resolved"

HandsTransaction(call) == \E i \in DOMAIN call.args : call.args[i] = "transaction"

\* C11: the continuation is handed the Transaction, and the promise of
\* transaction() is fulfilled with it, only when prepareEnvironment has been
\* fulfilled and the Transaction is ACTIVE at that moment.
C11_HandedOnlyWhenActive ==
  \A t \in Txs :
    /\ \A i \in DOMAIN cbCalls[t] :
         HandsTransaction(cbCalls[t][i]) =>
           (tPrepared[t] = "ok" /\ cbCalls[t][i].state = "ACTIVE")
    /\ tPromise[t].value = "transaction" =>
         (tPrepared[t] = "ok" /\ tPromise[t].state = "fulfilled")

C11_Witness ==
  \E t \in Txs :
    /\ tPromise[t] = [state |-> "fulfilled", value |-> "transaction"]
    /\ cbCalls[t] = <<[args |-> <<"transaction">>, state |-> "ACTIVE"]>>

\* C12 (as stated): when prepareEnvironment fails, the promise of
\* transaction() is rejected, whatever the arity of the continuation.
C12_SetupFailureRejects ==
  \A t \in Txs :
    (tPrepared[t] = "failed" /\ tpc[t] = "settled") => tPromise[t].state = "rejected"

\* C12 (amended): when prepareEnvironment fails, the promise of transaction()
\* is rejected with that failure unless the continuation declares exactly two
\* parameters; then the failure is passed to the continuation as its only
\* argument, and the promise is fulfilled with no value or, if the
\* continuation throws, rejected with what it threw.
C12_SetupFailureRejectsOrIsPassed ==
  \A t \in Txs :
    (tPrepared[t] = "failed" /\ tpc[t] = "settled") =>
      IF tArity[t] = 2
        THEN /\ Len(cbCalls[t]) = 1
             /\ cbCalls[t][1].args = <<tErr[t]>>
             /\ tPromise[t] \in {[state |-> "fulfilled", value |-> "undefined"],
                                 [state |-> "rejected", value |-> "callbackError"]}
        ELSE tPromise[t] = [state |-> "rejected", value |-> tErr[t]]

C12_Witness ==
  \E t \in Txs :
    /\ tPrepared[t] = "failed" /\ tArity[t] = 2
    /\ tPromise[t] = [state |-> "fulfilled", value |-> "undefined"]

\* C13: transaction() never commits or rolls back the Transaction: once set
\* up it stays ACTIVE until the caller ends it, also when the continuation
\* throws.
C13_NeverEndedByFacade ==
  \A t \in Txs :
    /\ endedBy[t] # "facade"
    /\ (tPrepared[t] = "ok" /\ endedBy[t] = "none") => txState[t] = "ACTIVE"
    /\ endedBy[t] = "caller" => txState[t] \in {"COMMITTED", "ROLLED_BACK"}

C13_Witness ==
  \E t \in Txs :
    /\ tPrepared[t] = "ok" /\ tpc[t] = "settled"
    /\ tPromise[t].state = "rejected" /\ tPromise[t].value = "callbackError"
    /\ txState[t] = "ACTIVE"

\* C14: a continuation declaring exactly two parameters is called as
\* (null, transaction) when the setup succeeded and as (error) when it failed;
\* a continuation of any other arity is called as (transaction) when the
\* setup succeeded and is not called when it failed.
C14_CalledByArity ==
  \A t \in Txs :
    /\ (tArity[t] = 2 /\ tPrepared[t] = "ok" /\ tpc[t] \in {"catch", "settled"}) =>
         (cbCalls[t] # <<>> /\ cbCalls[t][1].args = <<"null", "transaction">>)
    /\ (tArity[t] = 2 /\ tPrepared[t] = "failed" /\ tpc[t] = "settled") =>
         (Len(cbCalls[t]) = 1 /\ cbCalls[t][1].args = <<tErr[t]>>)
    /\ (tArity[t] \notin {2, NoCallback} /\ tPrepared[t] = "ok"
          /\ tpc[t] \in {"catch", "settled"}) =>
         (Len(cbCalls[t]) = 1 /\ cbCalls[t][1].args = <<"transaction">>)
    /\ (tArity[t] # 2 /\ tPrepared[t] = "failed") => cbCalls[t] = <<>>

C14_Witness ==
  \E t \in Txs :
    /\ tArity[t] = 2 /\ tPrepared[t] = "failed" /\ tpc[t] = "settled"
    /\ Len(cbCalls[t]) = 1

\* C15: when getConnection() fails for a query() without a Transaction,
\* query() is rejected with that failure, no statement is handed to any
\* connection, and releaseConnection is not called.
C15_AcquireFailure ==
  \A q \in Queries :
    (qTx[q] = NoTx /\ getCalls[q] = 1 /\ qConn[q] = NoConn /\ qpc[q] = "done") =>
      /\ outcome[q] = "rejected"
      /\ qError[q] = "acquireError"
      /\ releaseCalls[q] = 0
      /\ \A c \in Conns : q \notin InFlightOn(c)

\* One call fails to get a connection while another one holds one.
C15_Witness ==
  \E q, p \in Queries :
    /\ qError[q] = "acquireError" /\ qpc[q] = "done"
    /\ qpc[p] = "executing"

UriParts ==
  CHOOSE p \in UriSchemes \X UriAuths \X UriPorts \X UriPaths :
    MakeUri(p[1], p[2], p[3], p[4]) = ctorIn.first

Constructed == ctorOut # NotConstructed

\* The dialect name the caller asked for: the URI's scheme, or the dialect
\* option, or the default.
Requested ==
  IF IsUriForm(ctorIn) THEN UriParts[1]
  ELSE IF ctorIn.argc = 4 /\ ctorIn.options.dialect # Absent
         THEN ctorIn.options.dialect
         ELSE <<"mysql">>

Contains(str, sub) ==
  \E i \in 0..(Len(str) - Len(sub)) : SubSeq(str, i + 1, i + Len(sub)) = sub

\* C17: constructing with a dialect name under which no dialect can be
\* resolved throws an error whose message includes that name and the cause of
\* the failed lookup; whatever the arguments, a facade that was produced has
\* its dialect and its connection manager set.
C17_UnknownDialectFails ==
  Constructed =>
    /\ Requested \notin {<<"mysql">>, <<"postgres">>, <<"postgresql">>,
                         <<"sqlite">>, <<"mariadb">>}
         => /\ ctorOut.kind = "error"
            /\ Contains(ctorOut.message, Requested)
            /\ Contains(ctorOut.message,
                        <<"Error: Cannot find module './dialects/">> \o Requested)
    /\ ctorOut.kind = "facade"
         => /\ ctorOut.dialect \in {<<"mysql">>, <<"postgres">>, <<"sqlite">>, <<"mariadb">>}
            /\ ctorOut.connectionManager \notin {Absent, JsNull}
    /\ ctorOut.kind \in {"facade", "error"}

C17_Witness ==
  /\ ctorOut.kind = "error"
  /\ ~IsUriForm(ctorIn)
  /\ Requested = <<"oracle">>
  /\ ctorIn.loads

\* C18: a connection URI without a path component yields an empty database
\* name in the configuration.
C18_NoPathEmptyDatabase ==
  (IsUriForm(ctorIn) /\ ctorOut.kind = "facade" /\ UriParts[4] = <<>>)
    => ctorOut.config.database = <<>>

\* The user and the password of a userinfo part, as written in the URI.
UserOf(auth) == IF auth = <<>> THEN Absent ELSE <<auth[1]>>
PasswordOf(auth) ==
  IF Len(auth) <= 2 THEN Absent ELSE SubSeq(auth, 3, Len(auth) - 1)

NoValue(v) == v \in {Absent, JsNull}

SameOrBothMissing(v, w) == v = w \/ (NoValue(v) /\ NoValue(w))

\* C19: for a URI scheme://[user[:password]@]host[:port]/database the
\* configuration has dialect = scheme, the URI's host, port, database (the
\* path without its leading slash), username and password, and the URI's
\* values win over dialect, host and port of the options object.
C19_UriComponents ==
  (IsUriForm(ctorIn) /\ ctorOut.kind = "facade" /\ UriParts[4] = <<"/", "db">>)
    => /\ ctorOut.options.dialect = UriParts[1]
       /\ ctorOut.config.host = <<"host">>
       /\ UriParts[3] # <<>> => ctorOut.config.port = Tail(UriParts[3])
       /\ ctorOut.config.database = <<"db">>
       /\ SameOrBothMissing(ctorOut.config.username, UserOf(UriParts[2]))
       /\ SameOrBothMissing(ctorOut.config.password, PasswordOf(UriParts[2]))

\* The result type the caller or the facade declared, NotSet when none did.
DeclaredType ==
  IF qoIn.argc >= 3 /\ qoIn.options.type \notin {NotSet, Undefined}
    THEN qoIn.options.type
    ELSE qoIn.defaults.type

StartsWithSelect(sql) ==
  /\ Len(sql) >= 6
  /\ sql[1] \in {"s", "S"} /\ sql[2] \in {"e", "E"} /\ sql[3] \in {"l", "L"}
  /\ sql[4] \in {"e", "E"} /\ sql[5] \in {"c", "C"} /\ sql[6] \in {"t", "T"}

\* C20: without a declared result type the type is SELECT when the final SQL
\* text starts with 'select' in any letter case and false otherwise; a type
\* declared in the call's options or in the facade's default query options
\* is the type the executor gets.
C20_TypeInference ==
  (qoOut # NotResolved /\ qoOut.error = "none") =>
    IF DeclaredType = NotSet
      THEN qoOut.options.type = (IF StartsWithSelect(qoOut.sql) THEN "SELECT" ELSE "false")
      ELSE qoOut.options.type = DeclaredType

Count(str, tok) == Cardinality({i \in DOMAIN str : str[i] = tok})

RECURSIVE Flatten(_)
Flatten(parts) == IF parts = <<>> THEN <<>> ELSE Head(parts) \o Flatten(Tail(parts))

\* The template with its k-th '?' replaced by the written form of the k-th
\* value, for as many values as there are.
Written(v) == IF v.kind = "number" THEN <<"5">> ELSE <<"'", "s", "'">>

Named(values, name) == {v \in SeqToSet(values) : v.name = name}
TheValue(values, name) == CHOOSE v \in Named(values, name) : TRUE

Positional(template, values) ==
  Flatten([i \in DOMAIN template |->
             LET k == Cardinality({j \in 1..i : template[j] = "?"})
             IN IF template[i] = "?" /\ k <= Len(values)
                  THEN Written(values[k])
                  ELSE <<template[i]>>])

SelectSp == <<"s", "e", "l", "e", "c", "t", " ">>

\* C21: when query() is given replacement values, the text handed to the
\* executor is the template with the values substituted: the k-th '?' by
\* the k-th value of an ordered sequence, ':name' by the value of that name in
\* a mapping; a template with a placeholder that has a value never passes
\* unsubstituted, and a name without a value fails the call.
C21_ReplacementsSubstituted ==
  (qoOut # NotResolved /\ qoIn.argc = 4) =>
    LET r == qoIn.replacements
        t == qoIn.sql
    IN IF r.isArray
         THEN /\ qoOut.error = "none"
              /\ qoOut.sql = Positional(t, r.values)
              /\ Count(t, "?") > 0 => qoOut.sql # t
              /\ t = SelectSp \o <<"?">> /\ r.values = <<Five(NoName)>>
                   => qoOut.sql = SelectSp \o <<"5">>
         ELSE IF qoOut.error = "none"
                THEN /\ Count(qoOut.sql, ":") = 0
                     /\ Count(t, ":") = 0 => qoOut.sql = t
                     /\ Count(t, ":") > 0 => qoOut.sql # t
                     /\ t = SelectSp \o <<":", "i", "d">>
                          => qoOut.sql = SelectSp \o Written(TheValue(r.values, Id))
                     /\ t = SelectSp \o <<":", "i", "d", " ", ":", "x">>
                          => qoOut.sql = SelectSp \o Written(TheValue(r.values, Id))
                                           \o <<" ">> \o Written(TheValue(r.values, X))
                ELSE /\ qoOut.sql = <<"(none)">>
                     /\ \/ Contains(t, <<":", "i", "d">>) /\ Named(r.values, Id) = {}
                        \/ Contains(t, <<":", "x">>) /\ Named(r.values, X) = {}

C21_Witness ==
  /\ qoIn.argc = 4
  /\ qoIn.sql = SelectSp \o <<"?", " ", "?">>
  /\ qoIn.replacements.values = <<Five(NoName), StringS(NoName)>>
  /\ qoOut.sql = SelectSp \o <<"5", " ", "'", "s", "'">>

\* C22: the postgres capability set is the abstract default set merged with
\* the postgres overrides, the override winning: RETURNING, DEFAULT VALUES,
\* schemas and lock are true, forShare is 'FOR SHARE', and every other key
\* has the abstract default (or is missing when the abstract set lacks it).
C22_PostgresSupports ==
  pgSupports # NotLoaded =>
    /\ pgSupports["RETURNING"] = "true"
    /\ pgSupports["DEFAULT VALUES"] = "true"
    /\ pgSupports["schemas"] = "true"
    /\ pgSupports["lock"] = "true"
    /\ pgSupports["forShare"] = "FOR SHARE"
    /\ pgSupports["VALUES ()"] = abstractSupports["VALUES ()"]
    /\ pgSupports["LIMIT ON UPDATE"] = abstractSupports["LIMIT ON UPDATE"]

C22_Witness ==
  /\ pgSupports # NotLoaded
  /\ abstractSupports["RETURNING"] = "false"
  /\ abstractSupports["forShare"] = "true"
  /\ abstractSupports["VALUES ()"] = "true"
  /\ abstractSupports["LIMIT ON UPDATE"] = NotSet
  /\ pgSupports["RETURNING"] = "true"
  /\ pgSupports["VALUES ()"] = "true"

\* C23: the dialect name 'postgresql', given as the URI's scheme or as the
\* dialect option, is turned into 'postgres' before the dialect is resolved:
\* the facade is constructed with the postgres dialect, and getDialect() of a
\* constructed facade is never 'postgresql'.
C23_PostgresqlAlias ==
  Constructed =>
    /\ ctorOut.kind = "facade"
         => /\ ctorOut.options.dialect # <<"postgresql">>
            /\ ctorOut.dialect # <<"postgresql">>
    /\ (Requested = <<"postgresql">> /\ ctorIn.loads)
         => /\ ctorOut.kind = "facade"
            /\ ctorOut.options.dialect = <<"postgres">>
            /\ ctorOut.dialect = <<"postgres">>

C23_Witness ==
  /\ IsUriForm(ctorIn)
  /\ UriParts[1] = <<"postgresql">>
  /\ ctorOut.kind = "facade"
  /\ ctorOut.options.dialect = <<"postgres">>

\* C24: query(sql) alone runs with raw true, whatever the facade's default
\* query options say; query(sql, callee) forces nothing: raw is what the
\* facade's default query options hold, or undefined.
C24_RawDefault ==
  (qoOut # NotResolved /\ qoOut.error = "none") =>
    /\ qoIn.argc = 1 => qoOut.options.raw = "true"
    /\ qoIn.argc = 2 =>
         qoOut.options.raw =
           (IF qoIn.defaults.raw = NotSet THEN "undefined" ELSE qoIn.defaults.raw)

C24_Witness ==
  /\ qoIn.argc = 1
  /\ qoIn.defaults.raw = "false"
  /\ qoOut.options.raw = "true"

\* C25: after any sequence of define() calls the registry holds at most one
\* factory per model name, and isDefined(name) and model(name) answer with
\* the factory the latest define(name, ...) returned.
C25_OnePerName ==
  \A name \in Entities :
    /\ Cardinality({i \in DOMAIN factories : factories[i].name = name}) <= 1
    /\ IsDefinedFactory(factories, name) <=> lastFactory[name] # NoFactory
    /\ ModelOf(factories, name) = lastFactory[name]

C25_Witness ==
  \E name, other \in Entities :
    /\ name # other
    /\ nextFactory = 4
    /\ lastFactory[name] = 3
    /\ lastFactory[other] = 2
    /\ Len(factories) = 2

\* C26: no sequence of query, transaction, sync, drop, authenticate and
\* define calls changes the facade's config or its stored options, the
\* default query, sync and define options included.
C26_ConfigImmutable ==
  \A o \in Stored : heap[o] = constructed[o]

C26_Witness ==
  /\ heap["options.query"].type = "INSERT"
  /\ heap["arg"].type = "SELECT"
  /\ heap["arg"].raw = "true"
  /\ heap["local"].type = "SELECT"
  /\ heap["local"].raw = "true"
  /\ heap["local"].logging = "console.log"

\* C27: within one transaction() call the continuation is invoked at most
\* once, on every path, the one where the continuation throws included.
C27_ContinuationAtMostOnce ==
  \A t \in Txs : Len(cbCalls[t]) <= 1

\* C28: under any interleaving of query() calls a connection obtained by a
\* call is passed to releaseConnection at most once, by that call only, and
\* only after the call's statement has ended; a connection that is back in
\* the pool is held by no call that has not released it.
C28_ReleaseAtMostOnce ==
  /\ \A q \in Queries :
       /\ releaseCalls[q] <= 1
       /\ releaseCalls[q] <= getCalls[q]
       /\ releaseCalls[q] = 1 =>
            /\ qTx[q] = NoTx
            /\ qConn[q] # NoConn
            /\ qpc[q] \in {"finally", "done"}
            /\ q \notin InFlightOn(qConn[q])
  /\ \A c \in pool :
       \A q \in Queries :
         (qTx[q] = NoTx /\ qConn[q] = c) => releaseCalls[q] = 1
  /\ \A c \in Conns :
       Cardinality({q \in Queries : qTx[q] = NoTx /\ qConn[q] = c
                                      /\ releaseCalls[q] = 0}) <= 1

C28_Witness ==
  \E q1, q2 \in Queries :
    /\ q1 # q2
    /\ qTx[q1] = NoTx /\ qTx[q2] = NoTx
    /\ qConn[q1] = qConn[q2]
    /\ releaseCalls[q1] = 1 /\ releaseCalls[q2] = 1
    /\ qpc[q1] = "done" /\ qpc[q2] = "done"
    /\ qConn[q1] \in pool

====
